---- MODULE Spec2Model ----
(***************************************************************************)
(* Model of dsws-client: the request model and its size validation, the    *)
(* batching of identifiers into request bundles (ds_request.py, client.py),*)
(* the flattening of data responses into records and their aggregation     *)
(* (parse.py), and the decoding of date literals (converters.py).          *)
(*                                                                         *)
(* Strings that the code splits and joins are sequences of characters; a   *)
(* character is a natural number and Comma is the separator ",".  All      *)
(* other strings (property names, field codes, symbols) are TLA+ strings.  *)
(***************************************************************************)
EXTENDS Integers, Sequences, FiniteSets, TLC

VARIABLES
    pc,               \* "idle", or the name of the operation that has run
    identifiers,      \* the identifier list handed to DSInstrument.construct
    n_fields,         \* the number of fields (len(data_types))
    instrument,       \* the DSInstrument the operation works on
    bundles,          \* the value returned by bundle_identifiers
    request_bundles,  \* the value returned by construct_request_bundles
    data_request,     \* the DSDataRequest built by DSDataRequest(...)
    data_requests,    \* the list handed to DSGetDataBundleRequest(...)
    bundle_request,   \* the DSGetDataBundleRequest built from data_requests
    raised,           \* the exception the operation raised, or "none"
    response,         \* the DSDataResponse handed to parse_response
    process_strings,  \* the process_strings flag of parse_response
    parsed_response,  \* the ParsedResponse returned by parse_response
    metas,            \* the two Metas handed to Meta.merge: <<self, other>>
    merged,           \* the operands after Meta.merge and the Meta it returned
    responses,        \* the list of responses handed to responses_to_records
    aggregated,       \* the ParsedResponse returned by responses_to_records
    date_literal,     \* the value handed to convert_date
    converted_date,   \* the datetime returned by convert_date
    construct_identifiers,  \* the identifiers handed to DSInstrument.construct
    with_return_names,      \* the return_names flag handed to it
    constructed,      \* the DSInstrument returned by DSInstrument.construct
    max_concurrency,  \* self._max_concurrency
    n_bundles,        \* len(request_bundles) of fetch_all: the bundles are 1..n_bundles
    future,           \* where the fetch_bundle call of each bundle stands
    consumer,         \* what the caller of fetch_all does: "pull", "process", "done"
    sends,            \* the bundles posted to the service, in the order of the posts
    yielded,          \* the bundles whose response fetch_all has yielded, in order
    processed,        \* the bundles whose response responses_to_records has parsed
    token,            \* self._token
    token_requests,   \* the number of GetToken requests posted
    token_reply,      \* the token value the GetToken request of each call is answered with
    token_used,       \* the token value each bundle request was built with
    now,              \* dt.datetime.now(), in minutes
    token_read        \* the last read of the token property

\* the variables of the request model and of the batching engine
requestVars == <<identifiers, n_fields, instrument, bundles, request_bundles,
                 data_request, data_requests, bundle_request>>

\* the variables of the response flattener
parseVars == <<response, process_strings, parsed_response>>

\* the variables of Meta.merge
mergeVars == <<metas, merged>>

\* the variables of the aggregator
aggregateVars == <<responses, aggregated>>

\* the variables of the date converter
dateVars == <<date_literal, converted_date>>

\* the variables of DSInstrument.construct
constructVars == <<construct_identifiers, with_return_names, constructed>>

\* the variables of fetch_all and of the caller that consumes it
fetchVars == <<max_concurrency, n_bundles, future, consumer, sends, yielded, processed>>

\* the variables of the token property
tokenVars == <<token, token_requests, token_reply, token_used, now, token_read>>

\* the variables of the client
clientVars == <<constructVars, fetchVars, tokenVars>>

\* the variables that the batching engine, the request model and
\* parse_response leave alone
decodeVars == <<mergeVars, aggregateVars, dateVars, clientVars>>

vars == <<pc, raised, requestVars, parseVars, decodeVars>>

----------------------------------------------------------------------------
(* Bounds of the model *)

\* identifier lists of every length 0..MaxLen are drawn
MaxLen == 52
\* field counts 0..MaxFields are drawn
MaxFields == 52
\* a DSGetDataBundleRequest is built from 0..MaxRequests requests of one
\* shape followed by 0..MaxTail requests of another
MaxRequests == 22
MaxTail == 3
\* a response's date axis holds 0..MaxDates dates, an array value 0..MaxDates
\* elements
MaxDates == 2

\* the longest list of responses handed to responses_to_records
MaxResponses == 3

\* the largest number of request bundles handed to fetch_all
MaxBundles == 3

\* the largest max_concurrency of the client
MaxConcurrency == 2

\* the minutes a token fetched from the service is valid
TokenLifetime == 2

\* the last minute of the clock
MaxTime == 8

----------------------------------------------------------------------------
(* ds_request.py: the service limits *)

MAX_INSTRUMENTS_PER_REQUEST == 50
MAX_DATATYPES_PER_REQUEST == 50
MAX_ITEMS_PER_REQUEST == 100
MAX_REQUESTS_PER_BUNDLE == 20
MAX_ITEMS_PER_BUNDLE == 500

\* the separator character "," of DSInstrument.value
Comma == 0

\* Python's None
None == [t |-> "NoneType"]

Min(a, b) == IF a < b THEN a ELSE b

----------------------------------------------------------------------------
(* Python built-ins used by ds_request.py *)

\* ",".join(xs): the strings of xs with a Comma between neighbours
RECURSIVE Join(_)
Join(xs) ==
    IF Len(xs) = 0 THEN <<>>
    ELSE IF Len(xs) = 1 THEN xs[1]
    ELSE LET h == Len(xs) \div 2
         IN  Join(SubSeq(xs, 1, h)) \o <<Comma>> \o Join(SubSeq(xs, h + 1, Len(xs)))

\* s.split(","): the maximal Comma-free pieces of s, in order; "" gives [""]
RECURSIVE Split(_)
Split(s) ==
    IF Len(s) = 0 THEN << <<>> >>
    ELSE IF Len(s) = 1 THEN (IF s[1] = Comma THEN << <<>>, <<>> >> ELSE << s >>)
    ELSE LET h == Len(s) \div 2
             l == Split(SubSeq(s, 1, h))
             r == Split(SubSeq(s, h + 1, Len(s)))
         IN  SubSeq(l, 1, Len(l) - 1) \o << l[Len(l)] \o r[1] >> \o SubSeq(r, 2, Len(r))

\* the lists of xss chained into one list (itertools.chain, nested for loops)
RECURSIVE Concat(_)
Concat(xss) ==
    IF Len(xss) = 0 THEN <<>>
    ELSE IF Len(xss) = 1 THEN xss[1]
    ELSE LET h == Len(xss) \div 2
         IN  Concat(SubSeq(xss, 1, h)) \o Concat(SubSeq(xss, h + 1, Len(xss)))

\* xs[a:b] for 0 <= a <= b
Slice(xs, a, b) == SubSeq(xs, a + 1, Min(b, Len(xs)))

\* list(range(0, stop, step)) for step > 0
Range(stop, step) == [k \in 1..((stop + step - 1) \div step) |-> (k - 1) * step]

----------------------------------------------------------------------------
(* ds_request.py: the request model *)

DSStringKVPair(key, value) == [key |-> key, value |-> value]

DSInstrument(value, properties) == [value |-> value, properties |-> properties]

\* DSInstrument.identifiers
Identifiers(instr) == Split(instr.value)

\* DSInstrument.from_list
from_list(instrument_list) ==
    DSInstrument(Join(instrument_list), <<DSStringKVPair("IsSymbolSet", TRUE)>>)

\* DSInstrument.construct for a list of identifiers (no extra properties)
construct(ids, return_names) ==
    LET instance == from_list(ids)
    IN  IF return_names
        THEN [instance EXCEPT !.properties = @ \o <<DSStringKVPair("ReturnName", TRUE)>>]
        ELSE instance

\* a copy that does not take the properties over
EvolveBare(instr, value) == DSInstrument(value, <<>>)

\* attrs.evolve(instrument, value=value)
evolve(instr, value) == [instr EXCEPT !.value = value]

\* DSDataType.construct for the k-th field of the field list
DSDataType(k) == [value |-> k, properties |-> <<>>]

\* the list of data types built from f fields
DataTypes(f) == [k \in 1..f |-> DSDataType(k)]

\* DSDataRequest.__attrs_post_init__ without the item check
PostInitNoItemCheck(instr, data_types) ==
    IF Len(Identifiers(instr)) > MAX_INSTRUMENTS_PER_REQUEST THEN "InvalidRequestError"
    ELSE IF Len(data_types) > MAX_DATATYPES_PER_REQUEST THEN "InvalidRequestError"
    ELSE "none"

\* DSDataRequest.__attrs_post_init__: the exception it raises, or "none"
attrs_post_init(instr, data_types) ==
    IF Len(Identifiers(instr)) > MAX_INSTRUMENTS_PER_REQUEST THEN "InvalidRequestError"
    ELSE IF Len(data_types) > MAX_DATATYPES_PER_REQUEST THEN "InvalidRequestError"
    ELSE IF Len(Identifiers(instr)) * Len(data_types) > MAX_ITEMS_PER_REQUEST
         THEN "InvalidRequestError"
    ELSE "none"

\* DSDataRequest(instrument, data_types, date, tag): the attrs validators of
\* the fields run first (min_len(1) raises ValueError), then the post-init
DSDataRequest(instr, data_types) ==
    IF Len(data_types) < 1 THEN [raised |-> "ValueError", value |-> None]
    ELSE IF attrs_post_init(instr, data_types) # "none"
         THEN [raised |-> attrs_post_init(instr, data_types), value |-> None]
    ELSE [raised |-> "none",
          value  |-> [instrument |-> instr, data_types |-> data_types, tag |-> None]]

\* len(request.instrument.identifiers) * len(request.data_types)
Items(request) == Len(Identifiers(request.instrument)) * Len(request.data_types)

RECURSIVE SumItems(_)
SumItems(value) ==
    IF Len(value) = 0 THEN 0 ELSE Items(value[1]) + SumItems(Tail(value))

\* DSGetDataBundleRequest.validate_requests without the request-count check
ValidateNoCountCheck(value) ==
    IF SumItems(value) > MAX_ITEMS_PER_BUNDLE THEN "InvalidRequestError"
    ELSE "none"

\* DSGetDataBundleRequest.validate_requests: the exception it raises, or "none"
validate_requests(value) ==
    IF Len(value) > MAX_REQUESTS_PER_BUNDLE THEN "InvalidRequestError"
    ELSE IF SumItems(value) > MAX_ITEMS_PER_BUNDLE THEN "InvalidRequestError"
    ELSE "none"

\* DSGetDataBundleRequest(token_value, data_requests): min_len(1) first,
\* then validate_requests
DSGetDataBundleRequest(value) ==
    IF Len(value) < 1 THEN [raised |-> "ValueError", value |-> None]
    ELSE IF validate_requests(value) # "none"
         THEN [raised |-> validate_requests(value), value |-> None]
    ELSE [raised |-> "none", value |-> [data_requests |-> value]]

----------------------------------------------------------------------------
(* ds_request.py: the batching engine *)

\* a bundle run one identifier longer than the item cap allows
PerBatchOneMore(f) == (MAX_ITEMS_PER_BUNDLE \div f) + 1

\* a bundle run one identifier shorter than the item cap allows
PerBatchOneLess(f) == (MAX_ITEMS_PER_BUNDLE \div f) - 1

\* n_identifiers_per_batch in bundle_identifiers
n_identifiers_per_batch(f) == MAX_ITEMS_PER_BUNDLE \div f

\* the request split without the cap on instruments
PerRequestNoCap(f) == MAX_ITEMS_PER_REQUEST \div f

\* n_identifiers_per_request in split_bundle_identifiers
n_identifiers_per_request(f) ==
    Min(MAX_INSTRUMENTS_PER_REQUEST, MAX_ITEMS_PER_REQUEST \div f)

\* a split whose chunks each lose their last identifier but one
SplitDropping(bundle_instrument, f) ==
    LET ids == Identifiers(bundle_instrument)
        n == n_identifiers_per_request(f)
        starts == Range(Len(ids), n)
    IN  [k \in 1..Len(starts) |->
            evolve(bundle_instrument, Join(Slice(ids, starts[k], starts[k] + n - 1)))]

\* split_bundle_identifiers
split_bundle_identifiers(bundle_instrument, f) ==
    LET ids == Identifiers(bundle_instrument)
        n == n_identifiers_per_request(f)
        starts == Range(Len(ids), n)
    IN  [k \in 1..Len(starts) |->
            evolve(bundle_instrument, Join(Slice(ids, starts[k], starts[k] + n)))]

\* bundle_identifiers without the check of the field count
BundleNoFieldCheck(instr, f) ==
    IF f = 0 THEN [raised |-> "ZeroDivisionError", value |-> <<>>]
    ELSE LET ids == Identifiers(instr)
             n == n_identifiers_per_batch(f)
             starts == Range(Len(ids), n)
         IN  [raised |-> "none",
              value  |-> [k \in 1..Len(starts) |->
                  split_bundle_identifiers(
                      evolve(instr, Join(Slice(ids, starts[k], starts[k] + n))), f)]]

\* bundle_identifiers: the exception it raises and the bundles it returns
bundle_identifiers(instr, f) ==
    IF f > MAX_DATATYPES_PER_REQUEST THEN [raised |-> "ValueError", value |-> <<>>]
    ELSE IF f = 0 THEN [raised |-> "ZeroDivisionError", value |-> <<>>]
    ELSE LET ids == Identifiers(instr)
             n == n_identifiers_per_batch(f)
             starts == Range(Len(ids), n)
         IN  [raised |-> "none",
              value  |-> [k \in 1..Len(starts) |->
                  split_bundle_identifiers(
                      evolve(instr, Join(Slice(ids, starts[k], starts[k] + n))), f)]]

----------------------------------------------------------------------------
(* client.py: DSWSClient.construct_request_bundles *)

\* the data requests of one identifier bundle, and the first exception raised
BundleRequests(identifier_bundle, data_types) ==
    [k \in 1..Len(identifier_bundle) |-> DSDataRequest(identifier_bundle[k], data_types)]

FirstRaised(results) ==
    IF \A k \in 1..Len(results) : results[k].raised = "none" THEN "none"
    ELSE results[CHOOSE k \in 1..Len(results) :
                    /\ results[k].raised # "none"
                    /\ \A j \in 1..(k - 1) : results[j].raised = "none"].raised

construct_request_bundles(ids, f, return_symbol_names) ==
    LET instr == construct(ids, return_symbol_names)
        data_types == DataTypes(f)
        identifier_bundles == bundle_identifiers(instr, f)
        built == [b \in 1..Len(identifier_bundles.value) |->
                    BundleRequests(identifier_bundles.value[b], data_types)]
        errors == [b \in 1..Len(built) |-> FirstRaised(built[b])]
    IN  IF identifier_bundles.raised # "none"
        THEN [raised |-> identifier_bundles.raised, value |-> <<>>]
        ELSE IF \E b \in 1..Len(built) : errors[b] # "none"
        THEN [raised |-> errors[CHOOSE b \in 1..Len(built) :
                                   /\ errors[b] # "none"
                                   /\ \A j \in 1..(b - 1) : errors[j] = "none"],
              value |-> <<>>]
        ELSE [raised |-> "none",
              value  |-> [b \in 1..Len(built) |->
                            [k \in 1..Len(built[b]) |-> built[b][k].value]]]

----------------------------------------------------------------------------
(* Python values of a response and of a record: each carries its type, so  *)
(* that None, a bool, a str, a float and a list are never confused.        *)

PyBool(b) == [t |-> "bool", v |-> b]
PyInt(i) == [t |-> "int", v |-> i]
PyFloat(x) == [t |-> "float", v |-> x]
PyStr(s) == [t |-> "str", v |-> s]
PyList(xs) == [t |-> "list", v |-> xs]

\* a dict: its keys and the value of each key
EmptyDict == [k \in {} |-> k]

\* d[k] = v
SetItem(d, k, v) == [x \in (DOMAIN d) \cup {k} |-> IF x = k THEN v ELSE d[x]]

----------------------------------------------------------------------------
(* parse.py: the value codec *)

Returned(value) == [raised |-> "none", value |-> value]

Raised(exception) == [raised |-> exception, value |-> None]

\* parse_empty_value
parse_empty_value(value) == Returned(None)

\* parse_boolean_value: a lookup in the literal table, KeyError otherwise
parse_boolean_value(value) ==
    IF value.v \in {"Y", "true", "True"} THEN Returned(PyBool(TRUE))
    ELSE IF value.v \in {"N", "false", "False"} THEN Returned(PyBool(FALSE))
    ELSE Raised("KeyError")

\* parse_int_value: int(value) of a JSON number
parse_int_value(value) == Returned(PyInt(value.v))

\* parse_double_value: float(value) of a JSON number
parse_double_value(value) == Returned(PyFloat(value.v))

\* parse_string_value: str(value)
parse_string_value(value) == Returned(PyStr(value.v))

\* the scalar parsers of _CONVERSION_MAP
ParseScalar(type, value) ==
    CASE type = "ERROR" -> parse_empty_value(value)
      [] type = "EMPTY" -> parse_empty_value(value)
      [] type = "BOOL" -> parse_boolean_value(value)
      [] type = "INT" -> parse_int_value(value)
      [] type = "DOUBLE" -> parse_double_value(value)
      [] type = "STRING" -> parse_string_value(value)

\* the scalar parser that parse_bool_array, prase_int_array,
\* parse_double_array and parse_string_array apply to each element
ElementType(type) ==
    CASE type = "BOOL_ARRAY" -> "BOOL"
      [] type = "INT_ARRAY" -> "INT"
      [] type = "DOUBLE_ARRAY" -> "DOUBLE"
      [] type = "STRING_ARRAY" -> "STRING"

\* [parse(value) for value in values]: the first exception raised, or the list
ParseArray(type, values) ==
    LET parsed == [i \in 1..Len(values.v) |-> ParseScalar(ElementType(type), values.v[i])]
    IN  IF \A i \in 1..Len(parsed) : parsed[i].raised = "none"
        THEN Returned(PyList([i \in 1..Len(parsed) |-> parsed[i].value]))
        ELSE Raised(parsed[CHOOSE i \in 1..Len(parsed) :
                              /\ parsed[i].raised # "none"
                              /\ \A j \in 1..(i - 1) : parsed[j].raised = "none"].raised)

\* _CONVERSION_MAP[symbol_value.type](symbol_value.value); parse_object_array
\* returns the values as they are
Convert(type, value) ==
    IF type = "OBJECT_ARRAY" THEN Returned(value)
    ELSE IF type \in {"BOOL_ARRAY", "INT_ARRAY", "DOUBLE_ARRAY", "STRING_ARRAY"}
         THEN ParseArray(type, value)
    ELSE ParseScalar(type, value)

\* a post-processing that leaves "NA" as it is
ProcessStringKeepNA(value) ==
    IF value.v = "N" THEN PyBool(FALSE)
    ELSE IF value.v = "Y" THEN PyBool(TRUE)
    ELSE value

\* process_string_value
process_string_value(value) ==
    IF value.v = "NA" THEN None
    ELSE IF value.v = "N" THEN PyBool(FALSE)
    ELSE IF value.v = "Y" THEN PyBool(TRUE)
    ELSE value

----------------------------------------------------------------------------
(* parse.py: the response flattener *)

Error(field, symbol, message) == [field |-> field, symbol |-> symbol, message |-> message]

Meta(data_type_names, symbol_names, additional_responses, tags, currencies) ==
    [data_type_names |-> data_type_names, symbol_names |-> symbol_names,
     additional_responses |-> additional_responses, tags |-> tags,
     currencies |-> currencies]

ParsedResponse(records, errors, meta) ==
    [records |-> records, errors |-> errors, meta |-> meta]

\* {kv_pair.key: kv_pair.value for kv_pair in pairs}
RECURSIVE DictOf(_)
DictOf(pairs) ==
    IF Len(pairs) = 0 THEN EmptyDict
    ELSE SetItem(DictOf(SubSeq(pairs, 1, Len(pairs) - 1)),
                 pairs[Len(pairs)].key, pairs[Len(pairs)].value)

\* bool(x) of an Optional list or str: None and the empty value are falsy
Truthy(x) == x.t # "NoneType" /\ (IF x.t = "list" THEN Len(x.v) > 0 ELSE x.v # "")

\* parse_meta
parse_meta(resp) ==
    Meta(IF Truthy(resp.data_type_names) THEN DictOf(resp.data_type_names.v) ELSE EmptyDict,
         IF Truthy(resp.symbol_names) THEN DictOf(resp.symbol_names.v) ELSE EmptyDict,
         IF Truthy(resp.additional_responses)
             THEN DictOf(resp.additional_responses.v) ELSE EmptyDict,
         IF Truthy(resp.tag) THEN <<resp.tag.v>> ELSE <<>>,
         EmptyDict)

\* {**a, **b}: the keys of both, the value of b where both have the key
DictUnion(a, b) ==
    [k \in (DOMAIN a) \cup (DOMAIN b) |-> IF k \in DOMAIN b THEN b[k] ELSE a[k]]

\* a merge in which the entries of self win
MergeLeftBiased(self, other) ==
    [self  |-> self,
     other |-> other,
     value |-> Meta(DictUnion(other.data_type_names, self.data_type_names),
                    DictUnion(other.symbol_names, self.symbol_names),
                    DictUnion(other.additional_responses, self.additional_responses),
                    self.tags \o other.tags,
                    DictUnion(self.currencies, other.currencies))]

\* Meta.merge: value is the Meta it returns; self and other are the operands
\* after the call (the method assigns to neither)
merge(self, other) ==
    [self  |-> self,
     other |-> other,
     value |-> Meta(DictUnion(self.data_type_names, other.data_type_names),
                    DictUnion(self.symbol_names, other.symbol_names),
                    DictUnion(self.additional_responses, other.additional_responses),
                    self.tags \o other.tags,
                    DictUnion(self.currencies, other.currencies))]

\* the records of parse_response: a defaultdict(dict) keyed by (symbol, date);
\* keys holds its keys in insertion order, map the record of each key
NoRecords == [keys |-> <<>>, map |-> EmptyDict]

\* records[key][field] = value
SetField(records, key, field, value) ==
    IF key \in DOMAIN records.map
    THEN [records EXCEPT !.map = SetItem(@, key, SetItem(records.map[key], field, value))]
    ELSE [keys |-> Append(records.keys, key),
          map  |-> SetItem(records.map, key, SetItem(EmptyDict, field, value))]

\* an assignment loop that stops after the first date
SetFirstOnly(records, symbol, field, dates, values) ==
    IF Len(dates) = 0 \/ Len(values) = 0 THEN records
    ELSE SetField(records, <<symbol, dates[1]>>, field, values[1])

\* for date, xvalue in zip(dates, values): records[(symbol, date)][field] = xvalue
RECURSIVE SetFields(_, _, _, _, _)
SetFields(records, symbol, field, dates, values) ==
    IF Len(dates) = 0 \/ Len(values) = 0 THEN records
    ELSE SetFields(SetField(records, <<symbol, dates[1]>>, field, values[1]),
                   symbol, field, Tail(dates), Tail(values))

\* the locals of parse_response while it walks the symbol values
ParseState(records, errors, currencies, exception) ==
    [records |-> records, errors |-> errors, currencies |-> currencies, raised |-> exception]

\* a flattener that stores every element of an array under the first date
ProcessUnderFirstDate(st, field, dates, symbol_value, strings) ==
    LET converted == Convert(symbol_value.type, symbol_value.value)
        value == converted.value
    IN  IF converted.raised # "none" THEN [st EXCEPT !.raised = converted.raised]
        ELSE IF value.t # "list" \/ Len(value.v) # Len(dates)
             THEN [st EXCEPT !.raised = "InvalidResponseError"]
        ELSE [st EXCEPT !.records =
                  SetFields(@, symbol_value.symbol, field,
                            [i \in 1..Len(dates) |-> dates[1]], value.v)]

\* a flattener that stores a scalar under the first date of any axis
ProcessScalarUnchecked(st, field, dates, symbol_value, strings) ==
    LET is_error == symbol_value.type = "ERROR"
        errors == IF is_error
                  THEN Append(st.errors,
                              Error(field, symbol_value.symbol, symbol_value.value.v))
                  ELSE st.errors
        converted == Convert(symbol_value.type, symbol_value.value)
        value == IF symbol_value.type = "STRING" /\ strings
                 THEN process_string_value(converted.value)
                 ELSE converted.value
    IN  IF converted.raised # "none"
        THEN [st EXCEPT !.errors = errors, !.raised = converted.raised]
        ELSE IF is_error
        THEN [st EXCEPT !.errors = errors,
                        !.records = SetFields(@, symbol_value.symbol, field, dates,
                                              [i \in 1..Len(dates) |-> value])]
        ELSE IF value.t = "list"
        THEN IF Len(value.v) # Len(dates)
             THEN [st EXCEPT !.raised = "InvalidResponseError"]
             ELSE [st EXCEPT !.records =
                       SetFields(@, symbol_value.symbol, field, dates, value.v)]
        ELSE IF Len(dates) = 0 THEN [st EXCEPT !.raised = "IndexError"]
        ELSE [st EXCEPT !.records =
                  SetField(@, <<symbol_value.symbol, dates[1]>>, field, value)]

\* process_symbol_value: the locals after the call, raised set if it raises
process_symbol_value(st, field, dates, symbol_value, strings) ==
    LET is_error == symbol_value.type = "ERROR"
        errors == IF is_error
                  THEN Append(st.errors,
                              Error(field, symbol_value.symbol, symbol_value.value.v))
                  ELSE st.errors
        converted == Convert(symbol_value.type, symbol_value.value)
        value == IF symbol_value.type = "STRING" /\ strings
                 THEN process_string_value(converted.value)
                 ELSE converted.value
    IN  IF converted.raised # "none"
        THEN [st EXCEPT !.errors = errors, !.raised = converted.raised]
        ELSE IF is_error
        THEN [st EXCEPT !.errors = errors,
                        !.records = SetFields(@, symbol_value.symbol, field, dates,
                                              [i \in 1..Len(dates) |-> value])]
        ELSE IF value.t = "list"
        THEN IF Len(value.v) # Len(dates)
             THEN [st EXCEPT !.raised = "InvalidResponseError"]
             ELSE [st EXCEPT !.records =
                       SetFields(@, symbol_value.symbol, field, dates, value.v)]
        ELSE IF Len(dates) > 1 THEN [st EXCEPT !.raised = "InvalidResponseError"]
        ELSE IF Len(dates) = 0 THEN [st EXCEPT !.raised = "IndexError"]
        ELSE [st EXCEPT !.records =
                  SetField(@, <<symbol_value.symbol, dates[1]>>, field, value)]

\* the (field, symbol value) pairs in the order the nested loops visit them
SymbolValues(resp) ==
    Concat([d \in 1..Len(resp.data_type_values) |->
              [k \in 1..Len(resp.data_type_values[d].symbol_values) |->
                  [field |-> resp.data_type_values[d].data_type,
                   symbol_value |-> resp.data_type_values[d].symbol_values[k]]]])

\* meta.currencies[symbol][field] = currency on the defaultdict(dict)
SetCurrency(currencies, symbol, field, currency) ==
    SetItem(currencies, symbol,
            SetItem(IF symbol \in DOMAIN currencies THEN currencies[symbol] ELSE EmptyDict,
                    field, currency))

\* the nested loops of parse_response over the pairs; they stop at the first raise
RECURSIVE Walk(_, _, _, _)
Walk(st, pairs, dates, strings) ==
    IF Len(pairs) = 0 \/ st.raised # "none" THEN st
    ELSE Walk(process_symbol_value(
                  [st EXCEPT !.currencies =
                       SetCurrency(@, pairs[1].symbol_value.symbol, pairs[1].field,
                                   pairs[1].symbol_value.currency)],
                  pairs[1].field, dates, pairs[1].symbol_value, strings),
              Tail(pairs), dates, strings)

\* record["symbol"] = symbol; record["date"] = date; record_list.append(record)
RecordList(records) ==
    [i \in 1..Len(records.keys) |->
        SetItem(SetItem(records.map[records.keys[i]], "symbol", PyStr(records.keys[i][1])),
                "date", PyStr(records.keys[i][2]))]

\* parse_response: the exception it raises and the ParsedResponse it returns
parse_response(resp, strings) ==
    IF resp.dates.t = "NoneType" THEN [raised |-> "InvalidResponseError", value |-> None]
    ELSE LET meta == parse_meta(resp)
             st == Walk(ParseState(NoRecords, <<>>, EmptyDict, "none"),
                        SymbolValues(resp), resp.dates.v, strings)
         IN  IF st.raised # "none" THEN [raised |-> st.raised, value |-> None]
             ELSE [raised |-> "none",
                   value  |-> ParsedResponse(RecordList(st.records), st.errors,
                                             [meta EXCEPT !.currencies = st.currencies])]

\* a loop that stops at the first invalid response instead of skipping it
RECURSIVE ExtendUntilInvalid(_, _, _)
ExtendUntilInvalid(parsed, list, strings) ==
    IF Len(list) = 0 THEN [raised |-> "none", value |-> parsed]
    ELSE LET r == parse_response(Head(list), strings)
         IN  IF r.raised = "InvalidResponseError"
             THEN [raised |-> "none", value |-> parsed]
             ELSE IF r.raised # "none" THEN [raised |-> r.raised, value |-> None]
             ELSE ExtendUntilInvalid(
                      ParsedResponse(parsed.records \o r.value.records,
                                     parsed.errors \o r.value.errors,
                                     merge(parsed.meta, r.value.meta).value),
                      Tail(list), strings)

\* a loop that keeps the Meta of a response it skips
RECURSIVE ExtendKeepingMeta(_, _, _)
ExtendKeepingMeta(parsed, list, strings) ==
    IF Len(list) = 0 THEN [raised |-> "none", value |-> parsed]
    ELSE LET r == parse_response(Head(list), strings)
         IN  IF r.raised = "InvalidResponseError"
             THEN ExtendKeepingMeta(
                      IF Head(list).dates.t = "NoneType" THEN parsed
                      ELSE [parsed EXCEPT
                               !.meta = merge(@, parse_meta(Head(list))).value],
                      Tail(list), strings)
             ELSE IF r.raised # "none" THEN [raised |-> r.raised, value |-> None]
             ELSE ExtendKeepingMeta(
                      ParsedResponse(parsed.records \o r.value.records,
                                     parsed.errors \o r.value.errors,
                                     merge(parsed.meta, r.value.meta).value),
                      Tail(list), strings)

\* the loop of responses_to_records over the responses still to come:
\* parsed is parsed_response so far
RECURSIVE ExtendWith(_, _, _)
ExtendWith(parsed, list, strings) ==
    IF Len(list) = 0 THEN [raised |-> "none", value |-> parsed]
    ELSE LET r == parse_response(Head(list), strings)
         IN  IF r.raised = "InvalidResponseError"
             THEN ExtendWith(parsed, Tail(list), strings)
             ELSE IF r.raised # "none" THEN [raised |-> r.raised, value |-> None]
             ELSE ExtendWith(
                      ParsedResponse(parsed.records \o r.value.records,
                                     parsed.errors \o r.value.errors,
                                     merge(parsed.meta, r.value.meta).value),
                      Tail(list), strings)

\* responses_to_records
responses_to_records(list, strings) ==
    ExtendWith(ParsedResponse(<<>>, <<>>, Meta(EmptyDict, EmptyDict, EmptyDict, <<>>, EmptyDict)),
               list, strings)

----------------------------------------------------------------------------
(* converters.py: convert_date.  A date string is a sequence of one-letter  *)
(* strings.  A datetime is an instant, held as whole seconds after the     *)
(* epoch and the milliseconds beyond them, and the UTC offset of its       *)
(* tzinfo in minutes.                                                      *)

DigitChars == <<"0", "1", "2", "3", "4", "5", "6", "7", "8", "9">>

IsDigit(c) == \E d \in 1..10 : DigitChars[d] = c

datetime(seconds, millis, utcoffset) ==
    [t |-> "datetime", seconds |-> seconds, millis |-> millis, utcoffset |-> utcoffset]

\* re.search(r"[0-9+]+", chars): the leftmost run of digits and "+", as
\* long as it gets
Search(chars) ==
    LET InClass(i) == IsDigit(chars[i]) \/ chars[i] = "+"
        starts == {i \in 1..Len(chars) : InClass(i)}
    IN  IF starts = {} THEN [found |-> FALSE, group |-> <<>>]
        ELSE LET first == CHOOSE i \in starts : \A j \in starts : i <= j
                 ends == {j \in first..Len(chars) : \A k \in first..j : InClass(k)}
                 last == CHOOSE j \in ends : \A k \in ends : k <= j
             IN  [found |-> TRUE, group |-> SubSeq(chars, first, last)]

\* chars.split(sep)
RECURSIVE SplitOn(_, _)
SplitOn(chars, sep) ==
    LET at == {i \in 1..Len(chars) : chars[i] = sep}
    IN  IF at = {} THEN <<chars>>
        ELSE LET i == CHOOSE i \in at : \A j \in at : i <= j
             IN  <<SubSeq(chars, 1, i - 1)>> \o SplitOn(SubSeq(chars, i + 1, Len(chars)), sep)

\* int(chars) raises ValueError unless chars is a number; the strings handed
\* to it here hold digits only
IsDecimal(chars) == Len(chars) > 0 /\ \A i \in 1..Len(chars) : IsDigit(chars[i])

\* int(chars)
RECURSIVE IntOf(_)
IntOf(chars) ==
    IF Len(chars) = 0 THEN 0
    ELSE IntOf(SubSeq(chars, 1, Len(chars) - 1)) * 10
         + ((CHOOSE d \in 1..10 : DigitChars[d] = chars[Len(chars)]) - 1)

\* dt.datetime.fromtimestamp(int(timestamp) / 1000, tz): the last three
\* digits of the timestamp are the milliseconds, the digits before them the
\* seconds
fromtimestamp(timestamp, utcoffset) ==
    LET n == Len(timestamp)
    IN  datetime(IF n > 3 THEN IntOf(SubSeq(timestamp, 1, n - 3)) ELSE 0,
                 IntOf(SubSeq(timestamp, IF n > 3 THEN n - 2 ELSE 1, n)),
                 utcoffset)

\* convert_date
convert_date(date_str) ==
    IF date_str.t = "datetime" THEN Returned(date_str)
    ELSE LET match == Search(date_str.v)
             timestamp == match.group
         IN  IF ~ match.found THEN Raised("ValueError")
             ELSE IF \E i \in 1..Len(timestamp) : timestamp[i] = "+"
             THEN LET parts == SplitOn(timestamp, "+")
                  IN  IF Len(parts) # 2 THEN Raised("ValueError")
                      ELSE LET offset == parts[2]
                               hours == SubSeq(offset, 1, Min(2, Len(offset)))
                               minutes == SubSeq(offset, 3, Len(offset))
                           IN  IF ~ IsDecimal(hours) \/ ~ IsDecimal(minutes)
                               THEN Raised("ValueError")
                               ELSE IF IntOf(hours) * 60 + IntOf(minutes) >= 24 * 60
                               THEN Raised("ValueError")
                               ELSE IF ~ IsDecimal(parts[1]) THEN Raised("ValueError")
                               ELSE Returned(fromtimestamp(
                                        parts[1], IntOf(hours) * 60 + IntOf(minutes)))
             ELSE Returned(fromtimestamp(timestamp, 0))

----------------------------------------------------------------------------
(* ds_request.py: DSInstrument.construct for a list and for a string.  The *)
(* identifiers argument is a PyList of identifiers or a PyStr of           *)
(* characters; no extra properties are passed.                             *)

\* the characters "|", "L" and "E" of a hinted instrument string
Pipe == 1000

HintL == 1001

HintE == 1002

\* _HINT_MAP
HINT_MAP(hint) ==
    IF hint = <<HintL>> THEN Returned(DSStringKVPair("IsList", TRUE))
    ELSE IF hint = <<HintE>> THEN Returned(DSStringKVPair("IsExpression", TRUE))
    ELSE Raised("KeyError")

\* DSInstrument.construct(identifiers, return_names=return_names)
construct_instrument(identifiers_arg, return_names) ==
    LET made ==
          IF identifiers_arg.t = "list" THEN Returned(from_list(identifiers_arg.v))
          ELSE IF \E i \in 1..Len(identifiers_arg.v) : identifiers_arg.v[i] = Pipe
          THEN LET parts == SplitOn(identifiers_arg.v, Pipe)
               IN  IF Len(parts) # 2 THEN Raised("ValueError")
                   ELSE IF HINT_MAP(parts[2]).raised # "none" THEN HINT_MAP(parts[2])
                   ELSE Returned(DSInstrument(parts[1], <<HINT_MAP(parts[2]).value>>))
          ELSE Returned(DSInstrument(identifiers_arg.v, <<>>))
    IN  IF made.raised # "none" THEN made
        ELSE IF return_names
        THEN Returned([made.value EXCEPT
                          !.properties = @ \o <<DSStringKVPair("ReturnName", TRUE)>>])
        ELSE made

----------------------------------------------------------------------------
(* value_objects/types.py and client.py: the token, and fetch_all.  Time   *)
(* is counted in minutes.  The fetch_bundle call of a bundle is "pending"  *)
(* (submitted or not yet reached), "running" (about to read self.token),   *)
(* "get_token" (its GetToken request is posted), "read_token" (about to    *)
(* return self._token.token_value and post the bundle request),            *)
(* "in_flight" (the bundle request is posted), "finished" (its response is *)
(* there) or "yielded" (fetch_all has yielded the response).               *)

\* timedelta(minutes=1) of Token.is_expired
GraceMinutes == 1

Token(token_value, token_expiry) ==
    [t |-> "Token", token_value |-> token_value, token_expiry |-> token_expiry]

\* Token.is_expired at the given time
is_expired(tok, time) == tok.token_expiry + GraceMinutes < time

\* self._token is None or self._token.is_expired
NeedsToken(tok, time) == tok.t = "NoneType" \/ is_expired(tok, time)

\* DSGetTokenResponse.to_token of the reply to the serial-th GetToken request
to_token(serial, time) == Token(PyStr(serial), time + TokenLifetime)

\* fetch_all runs _fetch_all_threaded
Threaded == max_concurrency > 1

\* the fetch_bundle calls that are being executed
Active ==
    {b \in 1..n_bundles : future[b] \in {"running", "get_token", "read_token", "in_flight"}}

\* an executor that starts a thread for every submitted call
WorkerAlwaysAvailable == TRUE

\* ThreadPoolExecutor(max_workers=self._max_concurrency) has an idle worker
WorkerAvailable == Cardinality(Active) < max_concurrency

\* results that are handed out again after they were yielded
CompletedOrYielded == {b \in 1..n_bundles : future[b] \in {"finished", "yielded"}}

\* the futures concurrent.futures.as_completed can hand out next
Completed == {b \in 1..n_bundles : future[b] = "finished"}

----------------------------------------------------------------------------
(* The responses *)

\* DSSymbolResponseValue
DSSymbolResponseValue(type, symbol, currency, value) ==
    [type |-> type, symbol |-> symbol, currency |-> currency, value |-> value]

\* the date literals of the date axis, all different
DateLiterals == [i \in 1..MaxDates |-> IF i = 1 THEN "/Date(1681689600000+0000)/"
                                        ELSE IF i = 2 THEN "/Date(1681776000000+0000)/"
                                        ELSE IF i = 3 THEN "/Date(1681862400000+0000)/"
                                        ELSE "/Date(1681948800000+0000)/"]

\* no date axis, or the first 0..MaxDates date literals
DateAxes == {None} \cup {PyList(SubSeq(DateLiterals, 1, d)) : d \in 0..MaxDates}

StringLiterals == <<"NA", "Y", "TEST", "N">>

BoolLiterals == <<"Y", "N", "true", "False">>

\* the array values of length len; element i of a Double array is base + i
ArrayValues(symbol, currency, base, len) ==
    { DSSymbolResponseValue("DOUBLE_ARRAY", symbol, currency,
                            PyList([i \in 1..len |-> PyFloat(base + i)])),
      DSSymbolResponseValue("STRING_ARRAY", symbol, currency,
                            PyList([i \in 1..len |-> PyStr(StringLiterals[i])])),
      DSSymbolResponseValue("BOOL_ARRAY", symbol, currency,
                            PyList([i \in 1..len |-> PyStr(BoolLiterals[i])])) }

ScalarValues(symbol, currency, base) ==
    { DSSymbolResponseValue("ERROR", symbol, None, PyStr("$$ER: 0904,NO DATA AVAILABLE")),
      DSSymbolResponseValue("EMPTY", symbol, None, None),
      DSSymbolResponseValue("DOUBLE", symbol, currency, PyFloat(base)),
      DSSymbolResponseValue("STRING", symbol, currency, PyStr("NA")),
      DSSymbolResponseValue("STRING", symbol, currency, PyStr("TEST")),
      DSSymbolResponseValue("STRING", symbol, currency, PyStr("Y")),
      DSSymbolResponseValue("STRING", symbol, currency, PyStr("N")) }

\* the field carries no value for the symbol
Absent == [type |-> "ABSENT"]

SymbolValueChoices(symbol, currency, base) ==
    {Absent} \cup ScalarValues(symbol, currency, base)
             \cup UNION {ArrayValues(symbol, currency, base, len) : len \in 0..MaxDates}

Present(symbol_values) == SelectSeq(symbol_values, LAMBDA x : x.type # "ABSENT")

\* DSDataResponse: field "P" for the symbols VOD and U:JPM, field "MV" for VOD
DSDataResponse(p_vod, p_jpm, mv_vod, dates) ==
    [data_type_values |->
        << [data_type |-> "P", symbol_values |-> Present(<<p_vod, p_jpm>>)],
           [data_type |-> "MV", symbol_values |-> Present(<<mv_vod>>)] >>,
     dates |-> dates,
     data_type_names |->
        PyList(<<DSStringKVPair("P", "PRICE"), DSStringKVPair("MV", "MARKET VALUE")>>),
     symbol_names |->
        PyList(<<DSStringKVPair("VOD", "VODAFONE GROUP"),
                 DSStringKVPair("U:JPM", "JP MORGAN CHASE & CO.")>>),
     additional_responses |-> None,
     tag |-> PyStr("test")]

----------------------------------------------------------------------------
(* The inputs *)

\* the k-th identifier is the one-character string <<k>>
IdentifierList(n) == [k \in 1..n |-> <<k>>]

\* a list that overflows one bundle even with a single field
LongLens == {MAX_ITEMS_PER_BUNDLE + 1}

ListLens == (0..MaxLen) \cup LongLens

\* the list lengths for which bundle_identifiers is also handed an
\* instrument built with return_names=True
ReturnNameLens == {MaxTail, MaxLen}

----------------------------------------------------------------------------
(* The state machine: one operation is applied to inputs drawn from the    *)
(* bounded sets above.                                                     *)

Init ==
    /\ pc = "idle"
    /\ identifiers = <<>>
    /\ n_fields = 0
    /\ instrument = None
    /\ bundles = <<>>
    /\ request_bundles = <<>>
    /\ data_request = None
    /\ data_requests = <<>>
    /\ bundle_request = None
    /\ raised = "none"
    /\ response = None
    /\ process_strings = TRUE
    /\ parsed_response = None
    /\ metas = <<>>
    /\ merged = None
    /\ responses = <<>>
    /\ aggregated = None
    /\ date_literal = None
    /\ converted_date = None
    /\ construct_identifiers = None
    /\ with_return_names = FALSE
    /\ constructed = None
    /\ max_concurrency = 1
    /\ n_bundles = 0
    /\ future = <<>>
    /\ consumer = "idle"
    /\ sends = <<>>
    /\ yielded = <<>>
    /\ processed = <<>>
    /\ token = None
    /\ token_requests = 0
    /\ token_reply = <<>>
    /\ token_used = <<>>
    /\ now = 0
    /\ token_read = None

BundleIdentifiers ==
    /\ pc = "idle"
    /\ \E n \in ListLens, f \in 0..MaxFields,
          return_names \in BOOLEAN :
         LET instr == construct(IdentifierList(n), return_names)
             r == bundle_identifiers(instr, f)
         IN  /\ pc' = "bundle_identifiers"
             /\ identifiers' = IdentifierList(n)
             /\ n_fields' = f
             /\ return_names => n \in ReturnNameLens
             /\ instrument' = instr
             /\ bundles' = r.value
             /\ raised' = r.raised
    /\ UNCHANGED <<request_bundles, data_request, data_requests, bundle_request, parseVars, decodeVars>>

ConstructRequestBundles ==
    /\ pc = "idle"
    /\ \E n \in ListLens, f \in 0..MaxFields :
         LET r == construct_request_bundles(IdentifierList(n), f, FALSE)
         IN  /\ pc' = "construct_request_bundles"
             /\ identifiers' = IdentifierList(n)
             /\ n_fields' = f
             /\ instrument' = construct(IdentifierList(n), FALSE)
             /\ request_bundles' = r.value
             /\ raised' = r.raised
    /\ UNCHANGED <<bundles, data_request, data_requests, bundle_request, parseVars, decodeVars>>

NextBundle == BundleIdentifiers \/ ConstructRequestBundles

SpecBundle == Init /\ [][NextBundle]_vars

\* DSDataRequest(instrument=DSInstrument(value), data_types=[...], date=...)
NewDataRequest ==
    /\ pc = "idle"
    /\ \E n \in 0..MaxLen, f \in 0..MaxFields :
         LET instr == DSInstrument(Join(IdentifierList(n)), <<>>)
             r == DSDataRequest(instr, DataTypes(f))
         IN  /\ pc' = "DSDataRequest"
             /\ identifiers' = IdentifierList(n)
             /\ n_fields' = f
             /\ instrument' = instr
             /\ data_request' = r.value
             /\ raised' = r.raised
    /\ UNCHANGED <<bundles, request_bundles, data_requests, bundle_request, parseVars, decodeVars>>

\* the (identifiers, fields) shapes of the valid requests a bundle is built of
Shapes == {<<2, 1>>, <<25, 1>>, <<50, 2>>, <<2, 50>>}

Request(shape) ==
    DSDataRequest(DSInstrument(Join(IdentifierList(shape[1])), <<>>), DataTypes(shape[2])).value

Repeat(x, k) == [i \in 1..k |-> x]

\* DSGetDataBundleRequest(token_value=token, data_requests=requests)
NewGetDataBundleRequest ==
    /\ pc = "idle"
    /\ \E a \in Shapes, b \in Shapes, ka \in 0..MaxRequests, kb \in 0..MaxTail :
         LET requests == Repeat(Request(a), ka) \o Repeat(Request(b), kb)
             r == DSGetDataBundleRequest(requests)
         IN  /\ pc' = "DSGetDataBundleRequest"
             /\ data_requests' = requests
             /\ bundle_request' = r.value
             /\ raised' = r.raised
    /\ UNCHANGED <<identifiers, n_fields, instrument, bundles, request_bundles, data_request,
                   parseVars, decodeVars>>

NextRequest == NewDataRequest \/ NewGetDataBundleRequest

SpecRequest == Init /\ [][NextRequest]_vars

\* parse_response(response, process_strings=strings)
ParseResponse ==
    /\ pc = "idle"
    /\ \E p_vod \in SymbolValueChoices("VOD", "GBP", 100),
          p_jpm \in SymbolValueChoices("U:JPM", "USD", 200),
          mv_vod \in SymbolValueChoices("VOD", "GBP", 300),
          dates \in DateAxes, strings \in BOOLEAN :
         LET resp == DSDataResponse(p_vod, p_jpm, mv_vod, dates)
             r == parse_response(resp, strings)
         IN  /\ pc' = "parse_response"
             /\ response' = resp
             /\ process_strings' = strings
             /\ parsed_response' = r.value
             /\ raised' = r.raised
    /\ UNCHANGED <<requestVars, decodeVars>>

NextParse == ParseResponse

SpecParse == Init /\ [][NextParse]_vars

\* the Metas handed to Meta.merge: name maps that share keys with other
\* values, tag lists that share tags, currency maps that share symbols
DataTypeNameChoices ==
    { EmptyDict,
      SetItem(EmptyDict, "P", "PRICE"),
      SetItem(SetItem(EmptyDict, "P", "PRICE (ADJ)"), "MV", "MARKET VALUE") }

SymbolNameChoices ==
    { SetItem(EmptyDict, "VOD", "VODAFONE GROUP"),
      SetItem(SetItem(EmptyDict, "VOD", "VODAFONE GROUP PLC"),
              "U:JPM", "JP MORGAN CHASE & CO.") }

AdditionalResponseChoices ==
    { EmptyDict, SetItem(EmptyDict, "Frequency", "D"), SetItem(EmptyDict, "Frequency", "M") }

TagChoices == { <<>>, <<"a">>, <<"a", "b">> }

CurrencyChoices ==
    { EmptyDict,
      SetCurrency(EmptyDict, "VOD", "P", "GBP"),
      SetCurrency(EmptyDict, "VOD", "MV", "GBP"),
      SetCurrency(SetCurrency(EmptyDict, "VOD", "P", "GBP"), "U:JPM", "P", "USD") }

MetaChoices ==
    { Meta(d, s, a, t, c) : d \in DataTypeNameChoices, s \in SymbolNameChoices,
                            a \in AdditionalResponseChoices, t \in TagChoices,
                            c \in CurrencyChoices }

\* self.merge(other)
MergeMetas ==
    /\ pc = "idle"
    /\ \E self \in MetaChoices, other \in MetaChoices :
         /\ pc' = "merge"
         /\ metas' = <<self, other>>
         /\ merged' = merge(self, other)
    /\ UNCHANGED <<raised, requestVars, parseVars, aggregateVars, dateVars, clientVars>>

NextMerge == MergeMetas

SpecMerge == Init /\ [][NextMerge]_vars

\* a Double array of len elements
DoubleArray(symbol, currency, base, len) ==
    DSSymbolResponseValue("DOUBLE_ARRAY", symbol, currency,
                          PyList([i \in 1..len |-> PyFloat(base + i)]))

ErrorValue(symbol) ==
    DSSymbolResponseValue("ERROR", symbol, None, PyStr("$$ER: 0904,NO DATA AVAILABLE"))

EmptyValue(symbol) == DSSymbolResponseValue("EMPTY", symbol, None, None)

\* the response of another request: it echoes another tag and names field P
\* and symbol VOD otherwise
OtherRequest(resp) ==
    [resp EXCEPT !.tag = PyStr("other"),
                 !.data_type_names = PyList(<<DSStringKVPair("P", "PRICE (ADJ)")>>),
                 !.symbol_names = PyList(<<DSStringKVPair("VOD", "VODAFONE GROUP PLC")>>)]

\* an axis of the first d date literals
Axis(d) == PyList(SubSeq(DateLiterals, 1, d))

\* the responses handed to responses_to_records: good ones for the same and
\* for different symbols and fields, one good one of another request, and
\* the ones parse_response may reject (no axis, an empty axis with an array,
\* with a scalar, with an Error value and with no value, a short array
\* that follows an Error value)
ResponseChoices ==
    { DSDataResponse(DoubleArray("VOD", "GBP", 100, 1), Absent, Absent, Axis(1)),
      DSDataResponse(Absent, Absent, DoubleArray("VOD", "GBP", 300, 1), Axis(1)),
      DSDataResponse(ErrorValue("VOD"), DoubleArray("U:JPM", "USD", 200, MaxDates),
                     Absent, Axis(MaxDates)),
      OtherRequest(DSDataResponse(DoubleArray("VOD", "GBP", 100, 1), Absent, Absent, Axis(1))),
      DSDataResponse(DoubleArray("VOD", "GBP", 100, 1), Absent, Absent, Axis(0)),
      DSDataResponse(Absent, Absent, Absent, Axis(0)),
      DSDataResponse(ErrorValue("VOD"), Absent, Absent, Axis(0)),
      DSDataResponse(EmptyValue("VOD"), Absent, Absent, Axis(0)),
      DSDataResponse(DoubleArray("VOD", "GBP", 100, 1), Absent, Absent, None),
      DSDataResponse(ErrorValue("VOD"), DoubleArray("U:JPM", "USD", 200, 1),
                     Absent, Axis(MaxDates)) }

\* responses_to_records(responses, process_strings=strings)
ResponsesToRecords ==
    /\ pc = "idle"
    /\ \E n \in 0..MaxResponses, strings \in BOOLEAN :
         \E list \in [1..n -> ResponseChoices] :
             LET r == responses_to_records(list, strings)
             IN  /\ pc' = "responses_to_records"
                 /\ responses' = list
                 /\ process_strings' = strings
                 /\ aggregated' = r.value
                 /\ raised' = r.raised
    /\ UNCHANGED <<requestVars, response, parsed_response, mergeVars, dateVars, clientVars>>

NextAggregate == ResponsesToRecords

SpecAggregate == Init /\ [][NextAggregate]_vars

\* str(n) of a natural number
RECURSIVE Decimal(_)
Decimal(n) ==
    IF n < 10 THEN <<DigitChars[n + 1]>>
    ELSE Decimal(n \div 10) \o <<DigitChars[(n % 10) + 1]>>

\* n in at least width digits, zero-filled
ZeroFilled(n, width) ==
    [i \in 1..(width - Len(Decimal(n))) |-> "0"] \o Decimal(n)

\* the seconds after the epoch of the instants of the date literals: the
\* epoch, one second, and the midnights of 2020-01-01 (conftest),
\* 2023-04-17 and 2023-04-18
SecondsChoices == {0, 1, 86400, 1577836800, 1681689600, 1681776000}

MillisChoices == {0, 123, 999}

\* the offsets of the date literals, as <<hours, minutes>>
OffsetChoices == {<<0, 0>>, <<1, 0>>, <<5, 30>>, <<12, 0>>}

\* no offset, or an offset east ("+") or west ("-") of UTC
SignChoices == {"", "+", "-"}

\* the literal /Date(<ms>)/ or /Date(<ms><sign><HHMM>)/ of the DSDateString
\* pattern, for ms = seconds * 1000 + millis
DateString(seconds, millis, sign, offset) ==
    PyStr(<<"/", "D", "a", "t", "e", "(">>
          \o (IF seconds = 0 THEN Decimal(millis)
              ELSE Decimal(seconds) \o ZeroFilled(millis, 3))
          \o (IF sign = "" THEN <<>>
              ELSE <<sign>> \o ZeroFilled(offset[1], 2) \o ZeroFilled(offset[2], 2))
          \o <<")", "/">>)

\* the values handed to convert_date: the date literals, a datetime and a
\* string without a digit
DateChoices ==
    { DateString(seconds, millis, sign, offset) :
          seconds \in SecondsChoices, millis \in MillisChoices,
          sign \in SignChoices, offset \in OffsetChoices }
    \cup { datetime(1681689600, 0, 0), PyStr(<<"D", "a", "t", "e">>) }

\* convert_date(date_str)
ConvertDate ==
    /\ pc = "idle"
    /\ \E literal \in DateChoices :
         LET r == convert_date(literal)
         IN  /\ pc' = "convert_date"
             /\ date_literal' = literal
             /\ converted_date' = r.value
             /\ raised' = r.raised
    /\ UNCHANGED <<requestVars, parseVars, mergeVars, aggregateVars, clientVars>>

NextDate == ConvertDate

SpecDate == Init /\ [][NextDate]_vars

\* the values handed to DSInstrument.construct: lists of identifiers, the
\* same lists joined into a string, one identifier with the hint "|L", and
\* strings with the hint "|E", an unknown hint and two hints
ConstructChoices ==
    { PyList(IdentifierList(n)) : n \in 0..MaxLen }
    \cup { PyStr(Join(IdentifierList(n))) : n \in 0..MaxLen }
    \cup { PyStr(<<k, Pipe, HintL>>) : k \in 1..MaxLen }
    \cup { PyStr(<<1, Pipe, HintE>>), PyStr(<<1, Pipe, 2>>),
           PyStr(<<1, Pipe, HintL, Pipe, HintL>>) }

\* DSInstrument.construct(identifiers, return_names=return_names)
ConstructInstrument ==
    /\ pc = "idle"
    /\ \E identifiers_arg \in ConstructChoices, return_names \in BOOLEAN :
         LET r == construct_instrument(identifiers_arg, return_names)
         IN  /\ pc' = "construct"
             /\ construct_identifiers' = identifiers_arg
             /\ with_return_names' = return_names
             /\ constructed' = r.value
             /\ raised' = r.raised
    /\ UNCHANGED <<requestVars, parseVars, mergeVars, aggregateVars, dateVars,
                   fetchVars, tokenVars>>

NextInstrument == ConstructInstrument

SpecInstrument == Init /\ [][NextInstrument]_vars

\* the tokens a client may have cached when a fetch begins: none, one
\* that is valid for the whole fetch, one that is expired
CachedTokens(time) ==
    {None, Token(PyStr(0), time + TokenLifetime), Token(PyStr(0), time - GraceMinutes - 1)}

\* fetch_snapshot_data / fetch_timeseries_data: responses_to_records is
\* handed the generator of fetch_all and begins to pull from it
FetchData ==
    /\ pc = "idle"
    /\ \E n \in 0..MaxBundles, c \in 0..MaxConcurrency, cached \in CachedTokens(now) :
         /\ pc' = "fetch_all"
         /\ n_bundles' = n
         /\ max_concurrency' = c
         /\ token' = cached
         /\ future' = [b \in 1..n |-> "pending"]
         /\ token_used' = [b \in 1..n |-> None]
         /\ token_reply' = [b \in 1..n |-> None]
    /\ consumer' = "pull"
    /\ UNCHANGED <<raised, requestVars, parseVars, mergeVars, aggregateVars, dateVars,
                   constructVars, sends, yielded, processed, token_requests, now,
                   token_read>>

\* fetch_bundle(bundle) begins: in a worker of the executor, which takes
\* the submitted calls in order, or in the caller's thread when the loop of
\* fetch_all reaches the bundle
StartBundle ==
    /\ pc = "fetch_all"
    /\ \E b \in 1..n_bundles :
         /\ future[b] = "pending"
         /\ IF Threaded
            THEN WorkerAvailable /\ \A a \in 1..(b - 1) : future[a] # "pending"
            ELSE consumer = "pull" /\ b = Len(yielded) + 1
         /\ future' = [future EXCEPT ![b] = "running"]
    /\ UNCHANGED <<pc, raised, requestVars, parseVars, mergeVars, aggregateVars, dateVars,
                   constructVars, max_concurrency, n_bundles, consumer, sends, yielded,
                   processed, tokenVars>>

\* the token property, up to the post of fetch_token
CheckToken ==
    /\ pc = "fetch_all"
    /\ \E b \in 1..n_bundles :
         /\ future[b] = "running"
         /\ IF NeedsToken(token, now)
            THEN /\ future' = [future EXCEPT ![b] = "get_token"]
                 /\ token_requests' = token_requests + 1
                 /\ token_reply' = [token_reply EXCEPT ![b] = PyInt(token_requests + 1)]
            ELSE /\ future' = [future EXCEPT ![b] = "read_token"]
                 /\ UNCHANGED <<token_requests, token_reply>>
    /\ UNCHANGED <<pc, raised, requestVars, parseVars, mergeVars, aggregateVars, dateVars,
                   constructVars, max_concurrency, n_bundles, consumer, sends, yielded,
                   processed, token, token_used, now, token_read>>

\* self._token = self.fetch_token(): the reply to a GetToken request is
\* stored; each request is answered by a token of its own
StoreToken ==
    /\ pc = "fetch_all"
    /\ \E b \in 1..n_bundles :
         /\ future[b] = "get_token"
         /\ token' = to_token(token_reply[b].v, now)
         /\ future' = [future EXCEPT ![b] = "read_token"]
    /\ UNCHANGED <<pc, raised, requestVars, parseVars, mergeVars, aggregateVars, dateVars,
                   constructVars, max_concurrency, n_bundles, consumer, sends, yielded,
                   processed, token_requests, token_reply, token_used, now, token_read>>

\* return self._token.token_value, and the post of the bundle request
\* built with it
SendBundle ==
    /\ pc = "fetch_all"
    /\ \E b \in 1..n_bundles :
         /\ future[b] = "read_token"
         /\ token_used' = [token_used EXCEPT ![b] = token.token_value]
         /\ sends' = Append(sends, b)
         /\ future' = [future EXCEPT ![b] = "in_flight"]
    /\ UNCHANGED <<pc, raised, requestVars, parseVars, mergeVars, aggregateVars, dateVars,
                   constructVars, max_concurrency, n_bundles, consumer, yielded,
                   processed, token, token_requests, token_reply, now, token_read>>

\* the response to a bundle request arrives and fetch_bundle returns
ReceiveBundle ==
    /\ pc = "fetch_all"
    /\ \E b \in 1..n_bundles :
         /\ future[b] = "in_flight"
         /\ future' = [future EXCEPT ![b] = "finished"]
    /\ UNCHANGED <<pc, raised, requestVars, parseVars, mergeVars, aggregateVars, dateVars,
                   constructVars, max_concurrency, n_bundles, consumer, sends, yielded,
                   processed, tokenVars>>

\* fetch_all yields a response to the caller that pulls: the result of a
\* completed future, or the value fetch_bundle has just returned
YieldResponse ==
    /\ pc = "fetch_all"
    /\ consumer = "pull"
    /\ Len(yielded) < n_bundles
    /\ \E b \in Completed :
         /\ yielded' = Append(yielded, b)
         /\ future' = [future EXCEPT ![b] = "yielded"]
    /\ consumer' = "process"
    /\ UNCHANGED <<pc, raised, requestVars, parseVars, mergeVars, aggregateVars, dateVars,
                   constructVars, max_concurrency, n_bundles, sends, processed, tokenVars>>

\* the loop of responses_to_records parses the data responses of the
\* response it was handed, and pulls again
ProcessResponse ==
    /\ pc = "fetch_all"
    /\ consumer = "process"
    /\ processed' = Append(processed, yielded[Len(yielded)])
    /\ consumer' = "pull"
    /\ UNCHANGED <<pc, raised, requestVars, parseVars, mergeVars, aggregateVars, dateVars,
                   constructVars, max_concurrency, n_bundles, future, sends, yielded,
                   tokenVars>>

\* fetch_all is exhausted and responses_to_records returns
FinishFetch ==
    /\ pc = "fetch_all"
    /\ consumer = "pull"
    /\ Len(yielded) = n_bundles
    /\ consumer' = "done"
    /\ UNCHANGED <<pc, raised, requestVars, parseVars, mergeVars, aggregateVars, dateVars,
                   constructVars, max_concurrency, n_bundles, future, sends, yielded,
                   processed, tokenVars>>

NextFetch ==
    \/ FetchData
    \/ StartBundle
    \/ CheckToken
    \/ StoreToken
    \/ SendBundle
    \/ ReceiveBundle
    \/ YieldResponse
    \/ ProcessResponse
    \/ FinishFetch

SpecFetch == Init /\ [][NextFetch]_vars

\* every thread that can take a step takes one in the end, and every
\* request posted is answered
SpecFetchFair ==
    /\ SpecFetch
    /\ WF_vars(FetchData)
    /\ WF_vars(StartBundle)
    /\ WF_vars(CheckToken)
    /\ WF_vars(StoreToken)
    /\ WF_vars(SendBundle)
    /\ WF_vars(ReceiveBundle)
    /\ WF_vars(YieldResponse)
    /\ WF_vars(ProcessResponse)
    /\ WF_vars(FinishFetch)

\* DSWSClient.__init__: no token is cached
NewClient ==
    /\ pc = "idle"
    /\ pc' = "token"
    /\ token' = None
    /\ UNCHANGED <<raised, requestVars, parseVars, mergeVars, aggregateVars, dateVars,
                   constructVars, fetchVars, token_requests, token_reply, token_used,
                   now, token_read>>

\* the token property, read by one thread
ReadToken ==
    /\ pc = "token"
    /\ LET fetch == NeedsToken(token, now)
           fresh == IF fetch THEN to_token(token_requests + 1, now) ELSE token
       IN  /\ token' = fresh
           /\ token_requests' = IF fetch THEN token_requests + 1 ELSE token_requests
           /\ token_read' = [t |-> "read", at |-> now, cached |-> token,
                             fetched |-> fetch, returned |-> fresh.token_value]
    /\ UNCHANGED <<pc, raised, requestVars, parseVars, mergeVars, aggregateVars, dateVars,
                   constructVars, fetchVars, token_reply, token_used, now>>

\* a minute passes
Tick ==
    /\ pc = "token"
    /\ now < MaxTime
    /\ now' = now + 1
    /\ UNCHANGED <<pc, raised, requestVars, parseVars, mergeVars, aggregateVars, dateVars,
                   constructVars, fetchVars, token, token_requests, token_reply,
                   token_used, token_read>>

NextToken ==
    \/ NewClient
    \/ ReadToken
    \/ Tick

SpecToken == Init /\ [][NextToken]_vars

----------------------------------------------------------------------------
(* Helpers of the properties *)

CeilDiv(a, b) == (a + b - 1) \div b

\* the number of identifiers of a chunk
NIds(chunk) == Len(Identifiers(chunk))

\* the items of an identifier bundle: the sum over its chunks of identifiers * f
BundleItems(bundle, f) == Len(Concat([k \in 1..Len(bundle) |-> Identifiers(bundle[k])])) * f

\* c identifiers with f fields fit one request
FitsRequest(c, f) ==
    c <= MAX_INSTRUMENTS_PER_REQUEST /\ c * f <= MAX_ITEMS_PER_REQUEST

\* m identifiers with f fields can be laid out in one bundle
FitsBundle(m, f) ==
    /\ m * f <= MAX_ITEMS_PER_BUNDLE
    /\ \E r \in 1..MAX_REQUESTS_PER_BUNDLE : FitsRequest(CeilDiv(m, r), f)

FieldsInRange == n_fields \in 1..MAX_DATATYPES_PER_REQUEST

Bundled == pc = "bundle_identifiers" /\ FieldsInRange

----------------------------------------------------------------------------
(* The batching engine *)

\* C1: for 1 <= f <= 50 every chunk returned by bundle_identifiers has at
\* most 50 identifiers and at most 100 items (identifiers * f).
C1_ChunkWithinRequestLimits ==
    Bundled =>
        \A b \in 1..Len(bundles) : \A k \in 1..Len(bundles[b]) :
            /\ NIds(bundles[b][k]) <= MAX_INSTRUMENTS_PER_REQUEST
            /\ NIds(bundles[b][k]) * n_fields <= MAX_ITEMS_PER_REQUEST

\* a chunk that is full on both limits, followed by another chunk
C1_Witness ==
    /\ Bundled /\ raised = "none"
    /\ Len(bundles) >= 1 /\ Len(bundles[1]) >= 2
    /\ NIds(bundles[1][1]) = MAX_INSTRUMENTS_PER_REQUEST
    /\ NIds(bundles[1][1]) * n_fields = MAX_ITEMS_PER_REQUEST

\* C2: for 1 <= f <= 50 the items of every bundle returned by
\* bundle_identifiers (the sum over its chunks of identifiers * f) are at
\* most 500.
C2_BundleWithinItemLimit ==
    Bundled =>
        \A b \in 1..Len(bundles) : BundleItems(bundles[b], n_fields) <= MAX_ITEMS_PER_BUNDLE

\* a bundle holding exactly 500 items, followed by another bundle
C2_Witness ==
    /\ Bundled /\ raised = "none"
    /\ Len(bundles) >= 2
    /\ BundleItems(bundles[1], n_fields) = MAX_ITEMS_PER_BUNDLE

\* C3: the identifiers of all chunks of all bundles, concatenated in bundle
\* order and then chunk order, are exactly the identifiers of the instrument.
C3_ConcatenationIsIdentity ==
    Bundled =>
        Concat([b \in 1..Len(bundles) |->
                    Concat([k \in 1..Len(bundles[b]) |-> Identifiers(bundles[b][k])])])
            = Identifiers(instrument)

\* several bundles, the first of several chunks
C3_Witness ==
    /\ Bundled /\ raised = "none"
    /\ Len(bundles) >= 3 /\ Len(bundles[1]) >= 2
    /\ Len(bundles[Len(bundles)]) >= 2

C5_FewestBundles ==
    Bundled =>
        /\ raised = "none"
        /\ LET n == NIds(instrument)
           IN  \A k \in 1..(Len(bundles) - 1) : ~ FitsBundle(CeilDiv(n, k), n_fields)

\* three bundles or more, none of which could be saved
C5_Witness ==
    /\ Bundled /\ raised = "none"
    /\ Len(bundles) >= 3
    /\ FitsBundle(CeilDiv(Len(Identifiers(instrument)), Len(bundles)), n_fields)

\* C6: an instrument built from the empty identifier list gives no bundles.
C6_EmptyListGivesNoBundles ==
    (Bundled /\ identifiers = <<>>) => bundles = <<>>

\* C7: a field count above 50 is rejected with an error; no bundle and no
\* chunk is produced.
C7_TooManyFieldsRejected ==
    (pc = "bundle_identifiers" /\ n_fields > MAX_DATATYPES_PER_REQUEST) =>
        raised = "ValueError" /\ bundles = <<>>

\* 51 fields and a list long enough to be split
C7_Witness ==
    /\ pc = "bundle_identifiers"
    /\ n_fields = MAX_DATATYPES_PER_REQUEST + 1
    /\ Len(identifiers) > MAX_INSTRUMENTS_PER_REQUEST
    /\ raised = "ValueError"

----------------------------------------------------------------------------
(* The size validation of the request model *)

----------------------------------------------------------------------------
(* The response flattener *)

ArrayTypes == {"BOOL_ARRAY", "INT_ARRAY", "DOUBLE_ARRAY", "STRING_ARRAY", "OBJECT_ARRAY"}

\* the response has a date axis of one date or more, and every value it
\* carries is an array with one element per date
EveryValueSpansTheAxis(resp) ==
    /\ resp.dates.t = "list"
    /\ Len(resp.dates.v) >= 1
    /\ \A k \in 1..Len(SymbolValues(resp)) :
          /\ SymbolValues(resp)[k].symbol_value.type \in ArrayTypes
          /\ Len(SymbolValues(resp)[k].symbol_value.value.v) = Len(resp.dates.v)

\* the symbols the response carries a value for
SymbolsOf(resp) ==
    {SymbolValues(resp)[k].symbol_value.symbol : k \in 1..Len(SymbolValues(resp))}

\* the fields that carry a value for symbol
FieldsOf(resp, symbol) ==
    {SymbolValues(resp)[k].field :
        k \in {j \in 1..Len(SymbolValues(resp)) :
                 SymbolValues(resp)[j].symbol_value.symbol = symbol}}

\* the i-th element of an array value as a record holds it: a Bool literal
\* as the bool it stands for, any other element as it is
ElementOf(symbol_value, i) ==
    IF symbol_value.type = "BOOL_ARRAY"
    THEN PyBool(symbol_value.value.v[i].v \in {"Y", "true", "True"})
    ELSE symbol_value.value.v[i]

\* the positions in records of the records of (symbol, date)
RecordsOf(records, symbol, date) ==
    {j \in 1..Len(records) :
        records[j]["symbol"] = PyStr(symbol) /\ records[j]["date"] = PyStr(date)}

\* C10: when the date axis has D >= 1 (distinct) dates and every value is an
\* array of length D, parse_response returns one record per (symbol, date)
\* pair, symbols * D records in all; the record of symbol s and the i-th date
\* holds, under every field that carries a value for s, the i-th element of
\* that value, and nothing else but symbol and date.
C10_OneRecordPerSymbolAndDate ==
    (pc = "parse_response" /\ EveryValueSpansTheAxis(response)) =>
        /\ raised = "none"
        /\ Len(parsed_response.records)
             = Cardinality(SymbolsOf(response)) * Len(response.dates.v)
        /\ \A s \in SymbolsOf(response) : \A i \in 1..Len(response.dates.v) :
              LET found == RecordsOf(parsed_response.records, s, response.dates.v[i])
              IN  /\ Cardinality(found) = 1
                  /\ \A j \in found :
                        /\ DOMAIN parsed_response.records[j]
                             = FieldsOf(response, s) \cup {"symbol", "date"}
                        /\ \A k \in 1..Len(SymbolValues(response)) :
                              LET pair == SymbolValues(response)[k]
                              IN  pair.symbol_value.symbol = s =>
                                    parsed_response.records[j][pair.field]
                                        = ElementOf(pair.symbol_value, i)

\* two dates, two symbols, one of them with two fields: four records
C10_Witness ==
    /\ pc = "parse_response" /\ EveryValueSpansTheAxis(response)
    /\ raised = "none"
    /\ Len(response.dates.v) = 2
    /\ SymbolsOf(response) = {"VOD", "U:JPM"}
    /\ FieldsOf(response, "VOD") = {"P", "MV"}
    /\ Len(parsed_response.records) = 4

\* the response has a date axis (of any length)
HasAxis(resp) == resp.dates.t = "list"

IsError(symbol_value) == symbol_value.type = "ERROR"

IsArray(symbol_value) == symbol_value.type \in ArrayTypes

\* Empty, Bool, Int, DateTime, Double and String values
IsScalar(symbol_value) == ~ IsError(symbol_value) /\ ~ IsArray(symbol_value)

\* the positions of the (field, symbol value) pairs of the response
PairsOf(resp) == 1..Len(SymbolValues(resp))

\* the value of pair k does not fit an axis of d dates: an array of another
\* length, or a scalar on several dates
Misshapen(resp, k, d) ==
    LET symbol_value == SymbolValues(resp)[k].symbol_value
    IN  \/ IsArray(symbol_value) /\ Len(symbol_value.value.v) # d
        \/ IsScalar(symbol_value) /\ d > 1

\* C11: on a non-empty date axis an Error value for symbol X on field F
\* never makes parse_response raise (a raise is always due to a misshapen
\* non-error value); the errors list holds one Error(F, X, message) for each
\* Error value and nothing else, and the record of X for every date of the
\* axis holds None under F.
C11_ErrorValuesAreCollected ==
    (pc = "parse_response" /\ HasAxis(response) /\ Len(response.dates.v) >= 1) =>
        /\ raised \in {"none", "InvalidResponseError"}
        /\ raised # "none" =>
              \E k \in PairsOf(response) : Misshapen(response, k, Len(response.dates.v))
        /\ raised = "none" =>
              /\ Len(parsed_response.errors)
                   = Cardinality({k \in PairsOf(response) :
                                     IsError(SymbolValues(response)[k].symbol_value)})
              /\ \A k \in PairsOf(response) :
                    LET pair == SymbolValues(response)[k]
                    IN  IsError(pair.symbol_value) =>
                          /\ Cardinality({j \in 1..Len(parsed_response.errors) :
                                  parsed_response.errors[j]
                                      = Error(pair.field, pair.symbol_value.symbol,
                                              pair.symbol_value.value.v)}) = 1
                          /\ \A i \in 1..Len(response.dates.v) :
                                LET found == RecordsOf(parsed_response.records,
                                                       pair.symbol_value.symbol,
                                                       response.dates.v[i])
                                IN  /\ Cardinality(found) = 1
                                    /\ \A j \in found :
                                          parsed_response.records[j][pair.field] = None

\* two dates, an Error value for VOD on P beside a good array for U:JPM
C11_Witness ==
    /\ pc = "parse_response" /\ HasAxis(response) /\ raised = "none"
    /\ Len(response.dates.v) = 2
    /\ Len(parsed_response.errors) = 1
    /\ parsed_response.errors[1].field = "P" /\ parsed_response.errors[1].symbol = "VOD"
    /\ Len(parsed_response.records) = 4

\* C12: a response in which some array value that is not an Error has a
\* length different from the number of dates raises the invalid-response
\* condition.
C12_ArrayLengthMismatchRaises ==
    (/\ pc = "parse_response" /\ HasAxis(response)
     /\ \E k \in PairsOf(response) :
           /\ IsArray(SymbolValues(response)[k].symbol_value)
           /\ Len(SymbolValues(response)[k].symbol_value.value.v) # Len(response.dates.v))
        => raised = "InvalidResponseError"

\* what a scalar value is stored as: a String goes through
\* process_string_value when the flag is set
StoredScalar(symbol_value, strings) ==
    IF symbol_value.type = "EMPTY" THEN None
    ELSE IF symbol_value.type = "STRING" /\ strings
    THEN CASE symbol_value.value.v = "NA" -> None
           [] symbol_value.value.v = "N" -> PyBool(FALSE)
           [] symbol_value.value.v = "Y" -> PyBool(TRUE)
           [] OTHER -> symbol_value.value
    ELSE symbol_value.value

\* C13: on an axis of several dates a scalar value that is not an Error
\* raises the invalid-response condition; on an axis of one date every
\* scalar value is stored in the record of that date (parse_response raises
\* there only for an array of another length).
C13_ScalarNeedsSingleDate ==
    (pc = "parse_response" /\ HasAxis(response)) =>
        /\ (/\ Len(response.dates.v) > 1
            /\ \E k \in PairsOf(response) : IsScalar(SymbolValues(response)[k].symbol_value))
              => raised = "InvalidResponseError"
        /\ (/\ Len(response.dates.v) = 1
            /\ \A k \in PairsOf(response) : ~ Misshapen(response, k, 1))
              => /\ raised = "none"
                 /\ \A k \in PairsOf(response) :
                       LET pair == SymbolValues(response)[k]
                           found == RecordsOf(parsed_response.records,
                                              pair.symbol_value.symbol, response.dates.v[1])
                       IN  IsScalar(pair.symbol_value) =>
                             /\ Cardinality(found) = 1
                             /\ \A j \in found :
                                   parsed_response.records[j][pair.field]
                                       = StoredScalar(pair.symbol_value, process_strings)

\* several dates and a Double scalar: rejected
C13_Witness ==
    /\ pc = "parse_response" /\ HasAxis(response)
    /\ Len(response.dates.v) = 2
    /\ \E k \in PairsOf(response) : SymbolValues(response)[k].symbol_value.type = "DOUBLE"
    /\ \A k \in PairsOf(response) : ~ IsArray(SymbolValues(response)[k].symbol_value)
    /\ raised = "InvalidResponseError"

\* one date and a String scalar stored in the record of that date
C13_WitnessStored ==
    /\ pc = "parse_response" /\ HasAxis(response)
    /\ Len(response.dates.v) = 1 /\ raised = "none"
    /\ \E k \in PairsOf(response) : SymbolValues(response)[k].symbol_value.type = "STRING"
    /\ Len(parsed_response.records) = 2

\* C14: parse_response raises the invalid-response condition whenever the
\* date axis is absent or empty, whatever values the response carries.
C14_NoDatesRaises ==
    (pc = "parse_response" /\ (~ HasAxis(response) \/ Len(response.dates.v) = 0))
        => raised = "InvalidResponseError"

\* the set of the elements of the list
Elements(list) == {list[i] : i \in 1..Len(list)}

\* how often x occurs in the list
Count(list, x) == Cardinality({i \in 1..Len(list) : list[i] = x})

\* C16: the tags of a merged Meta are the set union of the tags of the two
\* operands, every tag occurring once.
C16_TagsAreSetUnion ==
    pc = "merge" =>
        /\ Elements(merged.value.tags)
              = Elements(metas[1].tags) \cup Elements(metas[2].tags)
        /\ \A tag \in Elements(merged.value.tags) : Count(merged.value.tags, tag) = 1

\* d[k], or the empty dict when d has no key k
GetOrEmpty(d, k) == IF k \in DOMAIN d THEN d[k] ELSE EmptyDict

\* C17: the currency map of a merged Meta is a deep merge: for a symbol of
\* both operands it holds the (field, currency) entries of both.
C17_CurrenciesDeepMerged ==
    pc = "merge" =>
        /\ DOMAIN merged.value.currencies
              = (DOMAIN metas[1].currencies) \cup (DOMAIN metas[2].currencies)
        /\ \A symbol \in DOMAIN merged.value.currencies :
              merged.value.currencies[symbol]
                  = DictUnion(GetOrEmpty(metas[1].currencies, symbol),
                              GetOrEmpty(metas[2].currencies, symbol))

\* m has the keys of a and of b, with the value of b for a key of b
RightBiased(m, a, b) ==
    /\ DOMAIN m = (DOMAIN a) \cup (DOMAIN b)
    /\ \A k \in DOMAIN b : m[k] = b[k]
    /\ \A k \in (DOMAIN a) \ (DOMAIN b) : m[k] = a[k]

\* C18: the field-name, symbol-name and additional-response maps of a
\* merged Meta are the right-biased union of the operands' maps, and the
\* operands are what they were before the call.
C18_NameMapsRightBiased ==
    pc = "merge" =>
        /\ RightBiased(merged.value.data_type_names,
                       metas[1].data_type_names, metas[2].data_type_names)
        /\ RightBiased(merged.value.symbol_names,
                       metas[1].symbol_names, metas[2].symbol_names)
        /\ RightBiased(merged.value.additional_responses,
                       metas[1].additional_responses, metas[2].additional_responses)
        /\ merged.self = metas[1]
        /\ merged.other = metas[2]

\* both operands name field P and symbol VOD, with different names
C18_Witness ==
    /\ pc = "merge"
    /\ "P" \in (DOMAIN metas[1].data_type_names) \cap (DOMAIN metas[2].data_type_names)
    /\ metas[1].data_type_names["P"] # metas[2].data_type_names["P"]
    /\ metas[1].symbol_names["VOD"] # metas[2].symbol_names["VOD"]
    /\ merged.value.data_type_names["P"] = metas[2].data_type_names["P"]

----------------------------------------------------------------------------
(* The aggregator *)

\* parse_response returns a result for the response and its axis has dates
IsValid(resp, strings) ==
    /\ HasAxis(resp) /\ Len(resp.dates.v) >= 1
    /\ parse_response(resp, strings).raised = "none"

HasEmptyAxis(resp) == HasAxis(resp) /\ Len(resp.dates.v) = 0

\* C15: aggregating a list in which one response is valid and the others
\* have an empty date axis returns normally, and the result holds exactly
\* the records, errors and meta of the valid response.
C15_EmptyAxisResponseSkipped ==
    (/\ pc = "responses_to_records" /\ Len(responses) >= 2
     /\ \E i \in 1..Len(responses) :
           /\ IsValid(responses[i], process_strings)
           /\ \A j \in (1..Len(responses)) \ {i} : HasEmptyAxis(responses[j]))
        => /\ raised = "none"
           /\ \A i \in 1..Len(responses) :
                 IsValid(responses[i], process_strings) =>
                     aggregated = parse_response(responses[i], process_strings).value

\* the list permuted by p
Permuted(list, p) == [i \in 1..Len(list) |-> list[p[i]]]

Orderings(n) == {p \in [1..n -> 1..n] : \A i, j \in 1..n : p[i] = p[j] => i = j}

\* the two lists hold the same elements the same number of times
SameMultiset(a, b) ==
    /\ Len(a) = Len(b)
    /\ \A x \in Elements(a) : Count(a, x) = Count(b, x)

\* two calls end alike: both raise the same exception, or both return
\* the same records and the same errors up to their order
SameRecordsAndErrors(r1, r2) ==
    /\ r1.raised = r2.raised
    /\ r1.raised = "none" =>
          /\ SameMultiset(r1.value.records, r2.value.records)
          /\ SameMultiset(r1.value.errors, r2.value.errors)

SameKeysAndTags(m1, m2) ==
    /\ SameMultiset(m1.tags, m2.tags)
    /\ DOMAIN m1.data_type_names = DOMAIN m2.data_type_names
    /\ DOMAIN m1.symbol_names = DOMAIN m2.symbol_names
    /\ DOMAIN m1.additional_responses = DOMAIN m2.additional_responses
    /\ DOMAIN m1.currencies = DOMAIN m2.currencies

\* the Meta of a response that parse_response accepts
MetaOf(resp, strings) == parse_response(resp, strings).value.meta

----------------------------------------------------------------------------
(* The date converter *)

\* the days from 1970-01-01 to the day d of month m of year y
DaysFromCivil(y, m, d) ==
    LET yy == IF m <= 2 THEN y - 1 ELSE y
        era == yy \div 400
        yoe == yy - era * 400
        doy == (153 * (IF m > 2 THEN m - 3 ELSE m + 9) + 2) \div 5 + d - 1
        doe == yoe * 365 + yoe \div 4 - yoe \div 100 + doy
    IN  era * 146097 + doe - 719468

\* C20: for every literal /Date(<ms>)/ and /Date(<ms><sign><HHMM>)/
\* convert_date returns the instant ms milliseconds after the epoch with the
\* UTC offset HH:MM of the literal's sign, UTC without an offset; the
\* literal /Date(1681689600000+0000)/ gives 2023-04-17T00:00:00Z.
C20_DateLiteralDecoded ==
    pc = "convert_date" =>
        /\ \A seconds \in SecondsChoices, millis \in MillisChoices,
              sign \in SignChoices, offset \in OffsetChoices :
              date_literal = DateString(seconds, millis, sign, offset) =>
                  /\ raised = "none"
                  /\ converted_date
                       = datetime(seconds, millis,
                                  IF sign = "" THEN 0
                                  ELSE IF sign = "+" THEN offset[1] * 60 + offset[2]
                                  ELSE 0 - (offset[1] * 60 + offset[2]))
        /\ date_literal = PyStr(<<"/", "D", "a", "t", "e", "(",
                                  "1", "6", "8", "1", "6", "8", "9", "6", "0", "0", "0", "0", "0",
                                  "+", "0", "0", "0", "0", ")", "/">>)
              => converted_date = datetime(DaysFromCivil(2023, 4, 17) * 86400, 0, 0)

----------------------------------------------------------------------------
(* The string post-processing and the dates of the records *)

\* C21: process_string_value maps "NA" to None, "N" to False, "Y" to True
\* and any other string to itself; parse_response applies it to the scalar
\* String values only, and only when process_strings is set: the elements
\* of a String array, and every value when the flag is off, are stored as
\* they are.
C21_StringPostProcessing ==
    (pc = "parse_response" /\ HasAxis(response) /\ raised = "none") =>
        \A k \in PairsOf(response) :
            LET pair == SymbolValues(response)[k]
                value == pair.symbol_value
                stored(i) ==
                    LET found == RecordsOf(parsed_response.records, value.symbol,
                                           response.dates.v[i])
                    IN  parsed_response.records[CHOOSE j \in found : TRUE][pair.field]
            IN  /\ value.type = "STRING" =>
                      stored(1) = IF ~ process_strings THEN value.value
                                  ELSE IF value.value.v = "NA" THEN None
                                  ELSE IF value.value.v = "N" THEN PyBool(FALSE)
                                  ELSE IF value.value.v = "Y" THEN PyBool(TRUE)
                                  ELSE value.value
                /\ value.type = "STRING_ARRAY" =>
                      \A i \in 1..Len(response.dates.v) : stored(i) = value.value.v[i]
                /\ value.type = "DOUBLE" => stored(1) = value.value

\* the flag is set: the scalar String "NA" of VOD is stored as None, the
\* element "NA" of the String array of U:JPM as the string
C21_Witness ==
    /\ pc = "parse_response" /\ HasAxis(response) /\ raised = "none"
    /\ process_strings
    /\ Len(response.dates.v) = 1
    /\ \E k \in PairsOf(response) :
          LET value == SymbolValues(response)[k].symbol_value
          IN  value.type = "STRING" /\ value.symbol = "VOD" /\ value.value.v = "NA"
    /\ \E k \in PairsOf(response) :
          LET value == SymbolValues(response)[k].symbol_value
          IN  value.type = "STRING_ARRAY" /\ value.symbol = "U:JPM"
    /\ parsed_response.records[1]["P"] = None
    /\ parsed_response.records[2]["P"] = PyStr("NA")

\* the i-th date literal of the axis, letter by letter
DateChars(i) == DateString(1681689600 + (i - 1) * 86400, 0, "+", <<0, 0>>)

\* C22: every record of parse_response holds under "date" the datetime that
\* one of the date literals of the axis decodes to, not the literal.
C22_RecordDateDecoded ==
    (pc = "parse_response" /\ HasAxis(response) /\ raised = "none") =>
        \A j \in 1..Len(parsed_response.records) :
            \E i \in 1..Len(response.dates.v) :
                /\ parsed_response.records[j]["date"].t = "datetime"
                /\ parsed_response.records[j]["date"] = convert_date(DateChars(i)).value

----------------------------------------------------------------------------
(* DSInstrument.construct *)

\* the properties construct gives to an instrument, before ReturnName
FormProperties(identifiers_arg) ==
    IF identifiers_arg.t = "list" THEN <<DSStringKVPair("IsSymbolSet", TRUE)>>
    ELSE IF \E i \in 1..Len(identifiers_arg.v) : identifiers_arg.v[i] = Pipe
    THEN <<DSStringKVPair("IsList", TRUE)>>
    ELSE <<>>

\* the string is "<value>|L" for a value without "|"
IsListHinted(chars) ==
    /\ Len(chars) >= 2
    /\ chars[Len(chars)] = HintL /\ chars[Len(chars) - 1] = Pipe
    /\ \A i \in 1..(Len(chars) - 2) : chars[i] # Pipe

\* C23: DSInstrument.construct of a list returns identifiers equal to the
\* list and properties [IsSymbolSet=True]; of a plain string identifiers =
\* split(value, ",") and no properties; of "<value>|L" identifiers [<value>]
\* and properties [IsList=True]; with return_names ReturnName=True comes
\* after those properties.
C23_ConstructForms ==
    (/\ pc = "construct"
     /\ \/ construct_identifiers.t = "list"
        \/ \A i \in 1..Len(construct_identifiers.v) : construct_identifiers.v[i] # Pipe
        \/ IsListHinted(construct_identifiers.v))
        => /\ raised = "none"
           /\ Identifiers(constructed)
                = IF construct_identifiers.t = "list" THEN construct_identifiers.v
                  ELSE IF IsListHinted(construct_identifiers.v)
                  THEN <<SubSeq(construct_identifiers.v, 1,
                                Len(construct_identifiers.v) - 2)>>
                  ELSE Split(construct_identifiers.v)
           /\ constructed.properties
                = FormProperties(construct_identifiers)
                  \o (IF with_return_names THEN <<DSStringKVPair("ReturnName", TRUE)>>
                      ELSE <<>>)

----------------------------------------------------------------------------
(* Frame conditions of the aggregator and of the batching engine *)

\* the list without its i-th element
Without(list, i) == SubSeq(list, 1, i - 1) \o SubSeq(list, i + 1, Len(list))

\* C28: a response for which parse_response raises the invalid-response
\* condition leaves no trace: responses_to_records ends as it does for the
\* list without that response, with the same records, errors and Meta, the
\* responses after it included.
C28_SkipIsAllOrNothing ==
    pc = "responses_to_records" =>
        \A i \in 1..Len(responses) :
            parse_response(responses[i], process_strings).raised = "InvalidResponseError"
                => [raised |-> raised, value |-> aggregated]
                     = responses_to_records(Without(responses, i), process_strings)

\* a good response, one rejected after its Error value was processed, and
\* another good response: the records of both good ones, no error
C28_Witness ==
    /\ pc = "responses_to_records" /\ raised = "none"
    /\ Len(responses) = 3
    /\ IsValid(responses[1], process_strings)
    /\ HasAxis(responses[2]) /\ Len(responses[2].dates.v) >= 1
    /\ IsError(SymbolValues(responses[2])[1].symbol_value)
    /\ parse_response(responses[2], process_strings).raised = "InvalidResponseError"
    /\ IsValid(responses[3], process_strings)
    /\ responses[1] # responses[3]
    /\ Len(aggregated.records) = 2
    /\ Len(aggregated.errors) = 0

\* C29: every chunk returned by bundle_identifiers has the property list of
\* the input instrument, and the input instrument still has the value and
\* the properties it was built with.
C29_ChunksKeepProperties ==
    (pc = "bundle_identifiers" /\ raised = "none") =>
        /\ \A b \in 1..Len(bundles) : \A k \in 1..Len(bundles[b]) :
              bundles[b][k].properties = instrument.properties
        /\ instrument.value = Join(identifiers)
        /\ instrument.properties[1] = DSStringKVPair("IsSymbolSet", TRUE)
        /\ Len(instrument.properties) <= 2
        /\ Len(instrument.properties) = 2 =>
              instrument.properties[2] = DSStringKVPair("ReturnName", TRUE)

\* an instrument with IsSymbolSet and ReturnName split into two bundles
C29_Witness ==
    /\ pc = "bundle_identifiers" /\ raised = "none"
    /\ Len(instrument.properties) = 2
    /\ Len(bundles) = 2
    /\ Len(bundles[1]) >= 2
    /\ bundles[2][1].properties
         = <<DSStringKVPair("IsSymbolSet", TRUE), DSStringKVPair("ReturnName", TRUE)>>
    /\ bundles[2][1].value # instrument.value

----------------------------------------------------------------------------
(* The protocol of fetch_all and of its caller *)

\* the bundles whose request is posted and not yet answered
InFlight == {b \in 1..n_bundles : future[b] = "in_flight"}

\* the number of times a bundle occurs in a log
Times(log, b) == Cardinality({i \in 1..Len(log) : log[i] = b})

\* C24: when several bundles are dispatched, responses_to_records begins
\* to process responses only after the results of all bundles are there,
\* in sequential and in concurrent mode
C24_AggregatorWaitsForAll ==
    (pc = "fetch_all" /\ (consumer = "process" \/ processed # <<>>))
        => \A b \in 1..n_bundles : future[b] \in {"finished", "yielded"}

\* C25: the number of bundle requests in flight is at most max_concurrency
\* when that is greater than 1, and at most 1 otherwise
C25_InFlightBounded ==
    pc = "fetch_all"
        => Cardinality(InFlight) <= (IF max_concurrency > 1 THEN max_concurrency ELSE 1)

\* the executor is saturated: as many requests in flight as there are
\* workers, and a submitted call that waits
C25_Witness ==
    /\ pc = "fetch_all"
    /\ max_concurrency > 1
    /\ Cardinality(InFlight) = max_concurrency
    /\ \E b \in 1..n_bundles : future[b] = "pending"

\* C26: during a fetch at most one GetToken request is issued, and every
\* bundle request is built with the token that request returned
C26_SingleTokenRequest ==
    pc = "fetch_all"
        => /\ token_requests <= 1
           /\ \A a, b \in 1..n_bundles :
                (future[a] \in {"in_flight", "finished", "yielded"}
                 /\ future[b] \in {"in_flight", "finished", "yielded"})
                    => token_used[a] = token_used[b]

\* no bundle is sent twice, no response is yielded twice, only answered
\* bundles are yielded; without threads the bundles are yielded in their
\* order and a bundle is sent only after the response of the one before it
\* was yielded
ExactlyOnceSoFar ==
    /\ \A b \in 1..n_bundles : Times(sends, b) <= 1 /\ Times(yielded, b) <= 1
    /\ \A i \in 1..Len(yielded) : Times(sends, yielded[i]) = 1
    /\ ~Threaded =>
         /\ \A i \in 1..Len(yielded) : yielded[i] = i
         /\ \A i \in 1..Len(sends) :
              \A a \in 1..(sends[i] - 1) : Times(yielded, a) = 1

\* every bundle was sent once and its response yielded once
AllYieldedOnce ==
    /\ consumer = "done"
    /\ Len(sends) = n_bundles
    /\ Len(yielded) = n_bundles
    /\ \A b \in 1..n_bundles : Times(sends, b) = 1 /\ Times(yielded, b) = 1

\* C30: when no transport call fails, fetch_all sends every bundle exactly
\* once and in the end has yielded exactly one response per bundle, none
\* twice and none dropped; without threads the responses come in bundle
\* order and a bundle is sent only after the response before it was yielded
C30_EveryBundleOnce ==
    /\ [](pc = "fetch_all" => ExactlyOnceSoFar)
    /\ (pc = "fetch_all") ~> AllYieldedOnce

\* a threaded fetch of several bundles that ended with the responses
\* yielded out of bundle order
C30_Witness ==
    /\ pc = "fetch_all"
    /\ AllYieldedOnce
    /\ n_bundles > 1
    /\ Threaded
    /\ yielded[1] # 1

\* a sequential fetch of several bundles that ended
C30_WitnessSequential ==
    /\ pc = "fetch_all"
    /\ AllYieldedOnce
    /\ n_bundles > 1
    /\ ~Threaded

\* C27: the token property never returns a cached token whose expiry has
\* passed: a read made after the expiry of the cached token fetches a new
\* one, and a read made before it fetches none
C27_TokenFreshOnRead ==
    (pc = "token" /\ token_read.t = "read" /\ token_read.cached.t = "Token")
        => /\ token_read.at > token_read.cached.token_expiry => token_read.fetched
           /\ token_read.cached.token_expiry > token_read.at => ~token_read.fetched

====
